---------------------------- MODULE Spec2Model ----------------------------
(***************************************************************************)
(* A model of src/src/App.js, the "Crypto Gem Finder" React component:     *)
(* the fetch / filter / score / rank / narrate pipeline and the load state *)
(* of the component.                                                       *)
(*                                                                         *)
(* The values of a decoded JSON record are modelled as JavaScript values   *)
(* (undefined for a missing key, null, number, boolean, string) and the    *)
(* arithmetic and comparisons of the source as the ECMAScript operations   *)
(* on them: ToNumber, ToBoolean, "/", "-", "*", "<", ">".  Numbers are     *)
(* exact rationals plus NaN and +/-Infinity; the inputs are integers of a  *)
(* magnitude for which IEEE-754 double arithmetic decides every threshold  *)
(* comparison of the source as the exact arithmetic does.                  *)
(***************************************************************************)
EXTENDS Integers, Sequences, FiniteSets, TLC

VARIABLES
    loading,        \* useState(true)               App.js:6
    error,          \* useState(null)               App.js:7
    cryptoData,     \* useState([])                 App.js:5
    sortField,      \* useState('potentialScore')   App.js:8
    sortDirection,  \* useState('desc')             App.js:9
    pc,             \* position of fetchCryptoData  App.js:22-45
    response,       \* what the network answered to the fetch of App.js:24-28
    view,           \* what the last render of App returned, App.js:122-231
    crypto,         \* the record analyzePotential / generateAnalysis work on
    score,          \* the local `score` of analyzePotential, App.js:48-51
    scPc,           \* position inside analyzePotential / generateAnalysis
    text,           \* the result of generateAnalysis
    sortedData      \* the result of sortData, App.js:134

vars == <<loading, error, cryptoData, sortField, sortDirection, pc, response,
          view, crypto, score, scPc, text, sortedData>>

-----------------------------------------------------------------------------
(* JavaScript values, as JSON.parse and a property read produce them.      *)

JSUndefined == [t |-> "undefined", n |-> 0, s |-> <<>>]
JSNull == [t |-> "null", n |-> 0, s |-> <<>>]
JSNum(i) == [t |-> "number", n |-> i, s |-> <<>>]
JSBool(b) == [t |-> "boolean", n |-> IF b THEN 1 ELSE 0, s |-> <<>>]
JSStr(cs) == [t |-> "string", n |-> 0, s |-> cs]

(* JavaScript Numbers: a rational p/q (q > 0), NaN, or an infinity whose   *)
(* sign is p.                                                              *)
Fin(p, q) == [k |-> "fin", p |-> p, q |-> q]
NaN == [k |-> "nan", p |-> 0, q |-> 1]
Inf(sign) == [k |-> "inf", p |-> sign, q |-> 1]

Sign(i) == IF i > 0 THEN 1 ELSE IF i < 0 THEN 0 - 1 ELSE 0
Abs(i) == IF i < 0 THEN 0 - i ELSE i

RECURSIVE GCD(_, _)
GCD(a, b) == IF b = 0 THEN a ELSE GCD(b, a % b)

(* A rational in lowest terms with a positive denominator.                 *)
Ratio(p, q) ==
    LET g == GCD(Abs(p), Abs(q))
    IN  Fin(Sign(q) * (p \div g), Abs(q) \div g)

Digits == {"0", "1", "2", "3", "4", "5", "6", "7", "8", "9"}
DigitVal(c) ==
    CASE c = "0" -> 0 [] c = "1" -> 1 [] c = "2" -> 2 [] c = "3" -> 3
      [] c = "4" -> 4 [] c = "5" -> 5 [] c = "6" -> 6 [] c = "7" -> 7
      [] c = "8" -> 8 [] c = "9" -> 9

(* UTF-16 code unit order of the characters the model's strings use.       *)
CharCode(c) == IF c = "-" THEN 45 ELSE IF c \in Digits THEN 48 + DigitVal(c) ELSE 97

RECURSIVE DecimalValue(_)
DecimalValue(cs) ==
    IF cs = <<>> THEN 0
    ELSE 10 * DecimalValue(SubSeq(cs, 1, Len(cs) - 1)) + DigitVal(cs[Len(cs)])

AllDigits(cs) == \A i \in 1..Len(cs) : cs[i] \in Digits

(* StringToNumber of ECMAScript for strings of digits, "-" and letters:    *)
(* the empty string is 0, a decimal literal is its value, the rest is NaN. *)
StringToNumber(cs) ==
    IF cs = <<>> THEN Fin(0, 1)
    ELSE IF AllDigits(cs) THEN Fin(DecimalValue(cs), 1)
    ELSE IF cs[1] = "-" /\ Len(cs) > 1 /\ AllDigits(Tail(cs))
         THEN Fin(0 - DecimalValue(Tail(cs)), 1)
    ELSE NaN

ToNumber(v) ==
    CASE v.t = "number" -> Fin(v.n, 1)
      [] v.t = "boolean" -> Fin(v.n, 1)
      [] v.t = "null" -> Fin(0, 1)
      [] v.t = "undefined" -> NaN
      [] v.t = "string" -> StringToNumber(v.s)

(* ToBoolean of a value, and of a Number.                                  *)
Truthy(v) ==
    CASE v.t = "number" -> v.n # 0
      [] v.t = "boolean" -> v.n = 1
      [] v.t = "string" -> v.s # <<>>
      [] OTHER -> FALSE

NumTruthy(x) == IF x.k = "fin" THEN x.p # 0 ELSE x.k = "inf"

(* x / y *)
NumDiv(x, y) ==
    IF x.k = "nan" \/ y.k = "nan" THEN NaN
    ELSE IF x.k = "inf" THEN (IF y.k = "inf" THEN NaN
                              ELSE Inf(x.p * (IF y.p < 0 THEN 0 - 1 ELSE 1)))
    ELSE IF y.k = "inf" THEN Fin(0, 1)
    ELSE IF y.p = 0 THEN (IF x.p = 0 THEN NaN ELSE Inf(Sign(x.p)))
    ELSE Ratio(x.p * y.q, x.q * y.p)

(* x * y *)
NumMul(x, y) ==
    IF x.k = "nan" \/ y.k = "nan" THEN NaN
    ELSE IF x.k = "inf" \/ y.k = "inf"
         THEN (IF x.p = 0 \/ y.p = 0 THEN NaN ELSE Inf(Sign(x.p) * Sign(y.p)))
    ELSE Ratio(x.p * y.p, x.q * y.q)

(* x - y *)
NumSub(x, y) ==
    IF x.k = "nan" \/ y.k = "nan" THEN NaN
    ELSE IF x.k = "inf" THEN (IF y.k = "inf" /\ y.p = x.p THEN NaN ELSE x)
    ELSE IF y.k = "inf" THEN Inf(0 - y.p)
    ELSE Ratio(x.p * y.q - y.p * x.q, x.q * y.q)

(* x < y on Numbers: false when either is NaN.                             *)
NumLt(x, y) ==
    IF x.k = "nan" \/ y.k = "nan" THEN FALSE
    ELSE IF x.k = "inf" THEN x.p < 0 /\ ~(y.k = "inf" /\ y.p < 0)
    ELSE IF y.k = "inf" THEN y.p > 0
    ELSE x.p * y.q < y.p * x.q

NumGt(x, y) == NumLt(y, x)

RECURSIVE StrLt(_, _)
StrLt(a, b) ==
    IF b = <<>> THEN FALSE
    ELSE IF a = <<>> THEN TRUE
    ELSE IF CharCode(a[1]) # CharCode(b[1]) THEN CharCode(a[1]) < CharCode(b[1])
    ELSE StrLt(Tail(a), Tail(b))

(* The relational operators on values: two strings compare by code units,  *)
(* anything else by ToNumber.                                              *)
JSLt(a, b) ==
    IF a.t = "string" /\ b.t = "string" THEN StrLt(a.s, b.s)
    ELSE NumLt(ToNumber(a), ToNumber(b))

JSGt(a, b) == JSLt(b, a)

(* Number.prototype.toFixed(digits): the integer n for which n / 10^digits *)
(* is closest to x, the larger one of two; "NaN" and "Infinity" otherwise. *)
Pow10(d) == IF d = 0 THEN 1 ELSE IF d = 1 THEN 10 ELSE 100

toFixed(x, digits) ==
    IF x.k # "fin" THEN [k |-> x.k, n |-> x.p, digits |-> digits]
    ELSE [k |-> "fin",
          n |-> Sign(x.p) * ((2 * Abs(x.p) * Pow10(digits) + x.q) \div (2 * x.q)),
          digits |-> digits]

-----------------------------------------------------------------------------
(* The pipeline of App.js.  A record `c` is one element of the decoded     *)
(* response: [id, name, symbol, market_cap, total_volume,                  *)
(* price_change_percentage_24h, total_supply, circulating_supply].         *)

Million == 1000000
TopN == 10

(* Variants of the filter callback with one condition changed.             *)
IsPotentialGem_RatioAtLeast(c) ==
    LET marketCapInMillions == NumDiv(ToNumber(c.market_cap), Fin(Million, 1))
        volumeToMarketCap == NumDiv(ToNumber(c.total_volume), ToNumber(c.market_cap))
    IN  /\ NumLt(marketCapInMillions, Fin(100, 1))
        /\ ~NumLt(volumeToMarketCap, Fin(1, 10))
        /\ JSGt(c.market_cap, JSNum(0))

IsPotentialGem_NoCapGuard(c) ==
    LET marketCapInMillions == NumDiv(ToNumber(c.market_cap), Fin(Million, 1))
        volumeToMarketCap == NumDiv(ToNumber(c.total_volume), ToNumber(c.market_cap))
    IN  /\ NumLt(marketCapInMillions, Fin(100, 1))
        /\ NumGt(volumeToMarketCap, Fin(1, 10))

(* The callback of data.filter, App.js:30-37.                              *)
IsPotentialGem(c) ==
    LET marketCapInMillions == NumDiv(ToNumber(c.market_cap), Fin(Million, 1))
        volumeToMarketCap == NumDiv(ToNumber(c.total_volume), ToNumber(c.market_cap))
    IN  /\ NumLt(marketCapInMillions, Fin(100, 1))
        /\ NumGt(volumeToMarketCap, Fin(1, 10))
        /\ JSGt(c.market_cap, JSNum(0))

(* potentialGems = data.filter(...), App.js:30.                            *)
potentialGems(data) == SelectSeq(data, IsPotentialGem)

(* score.value += points; score.factors.push(factor)                       *)
AddFactor(sc, points, factor) ==
    [value |-> sc.value + points, factors |-> Append(sc.factors, factor)]

NewScore == [value |-> 0, factors |-> <<>>]

(* App.js:53-60 *)
ScoreMarketCap(sc, c) ==
    LET marketCapInMillions == NumDiv(ToNumber(c.market_cap), Fin(Million, 1))
    IN  IF NumLt(marketCapInMillions, Fin(10, 1))
        THEN AddFactor(sc, 4, "Micro market cap with massive growth potential")
        ELSE IF NumLt(marketCapInMillions, Fin(50, 1))
        THEN AddFactor(sc, 3, "Very low market cap with high growth potential")
        ELSE sc

(* The volume group with `if` in place of `else if`.                       *)
ScoreVolume_BothTiers(sc, c) ==
    LET volumeToMarketCap == NumDiv(ToNumber(c.total_volume), ToNumber(c.market_cap))
        first == IF NumGt(volumeToMarketCap, Fin(5, 10))
                 THEN AddFactor(sc, 4, "Exceptional trading volume relative to market cap")
                 ELSE sc
    IN  IF NumGt(volumeToMarketCap, Fin(3, 10))
        THEN AddFactor(first, 3, "Very high trading volume relative to market cap")
        ELSE first

(* App.js:62-69 *)
ScoreVolume(sc, c) ==
    LET volumeToMarketCap == NumDiv(ToNumber(c.total_volume), ToNumber(c.market_cap))
    IN  IF NumGt(volumeToMarketCap, Fin(5, 10))
        THEN AddFactor(sc, 4, "Exceptional trading volume relative to market cap")
        ELSE IF NumGt(volumeToMarketCap, Fin(3, 10))
        THEN AddFactor(sc, 3, "Very high trading volume relative to market cap")
        ELSE sc

(* App.js:71-77 *)
ScoreMomentum(sc, c) ==
    IF JSGt(c.price_change_percentage_24h, JSNum(15))
    THEN AddFactor(sc, 4, "Strong positive price momentum (>15%)")
    ELSE IF JSGt(c.price_change_percentage_24h, JSNum(8))
    THEN AddFactor(sc, 2, "Good positive price momentum (>8%)")
    ELSE sc

(* App.js:79-88 *)
ScoreSupply(sc, c) ==
    IF Truthy(c.total_supply) /\ Truthy(c.circulating_supply)
    THEN LET supplyRatio == NumDiv(ToNumber(c.circulating_supply), ToNumber(c.total_supply))
         IN  IF NumLt(supplyRatio, Fin(3, 10))
             THEN AddFactor(sc, 3, "Very large room for supply growth")
             ELSE IF NumLt(supplyRatio, Fin(5, 10))
             THEN AddFactor(sc, 2, "Significant room for supply growth")
             ELSE sc
    ELSE sc

(* App.js:90-93 *)
ScoreBonus(sc, c) ==
    IF JSGt(c.total_volume, c.market_cap)
    THEN AddFactor(sc, 2, "Extremely high trading activity")
    ELSE sc

(* App.js:47-96 *)
analyzePotential(c) ==
    ScoreBonus(ScoreSupply(ScoreMomentum(ScoreVolume(ScoreMarketCap(NewScore, c), c), c), c), c)

(* The four template pieces of generateAnalysis, App.js:103-106.  A piece  *)
(* is a sequence of at most one clause; the result is their concatenation. *)
Clause(i, name, fixed) == [clause |-> i, name |-> name, fixed |-> fixed]

MarketCapClause(c) ==
    LET marketCapInMillions == NumDiv(ToNumber(c.market_cap), Fin(Million, 1))
    IN  <<Clause(1, c.name, toFixed(marketCapInMillions, 2))>>

VolumeClause(c) ==
    LET volumeToMarketCap == NumDiv(ToNumber(c.total_volume), ToNumber(c.market_cap))
    IN  IF NumGt(volumeToMarketCap, Fin(3, 10))
        THEN <<Clause(2, "", toFixed(NumMul(volumeToMarketCap, Fin(100, 1)), 1))>>
        ELSE <<>>

PriceClause(c) ==
    IF JSGt(c.price_change_percentage_24h, JSNum(0))
    THEN <<Clause(3, "", toFixed(ToNumber(c.price_change_percentage_24h), 1))>>
    ELSE <<>>

SupplyClause(c) ==
    LET supplyRatio ==
            IF Truthy(c.total_supply)
            THEN NumMul(NumDiv(ToNumber(c.circulating_supply), ToNumber(c.total_supply)),
                        Fin(100, 1))
            ELSE Fin(0, 1)   \* null: falsy, as 0 is
    IN  IF NumTruthy(supplyRatio)
        THEN <<Clause(4, "", toFixed(supplyRatio, 1))>>
        ELSE <<>>

(* App.js:98-107 *)
generateAnalysis(c) ==
    MarketCapClause(c) \o VolumeClause(c) \o PriceClause(c) \o SupplyClause(c)

(* The comparator of sortData, App.js:110-119, as the Number it returns.   *)
Comparator(a, b) ==
    IF sortField = "potentialScore"
    THEN LET scoreA == analyzePotential(a).value
             scoreB == analyzePotential(b).value
         IN  IF sortDirection = "desc" THEN Fin(scoreB - scoreA, 1)
                                       ELSE Fin(scoreA - scoreB, 1)
    ELSE LET aValue == ToNumber(a[sortField])
             bValue == ToNumber(b[sortField])
         IN  IF sortDirection = "desc" THEN NumSub(bValue, aValue)
                                       ELSE NumSub(aValue, bValue)

(* SortCompare of ECMAScript: a NaN from the comparator counts as +0.      *)
SortCompare(a, b) ==
    LET v == Comparator(a, b)
    IN  IF v.k = "nan" THEN 0 ELSE Sign(v.p)

(* An insertion that puts an element in front of its equals.               *)
RECURSIVE InsertSorted_BeforeEquals(_, _)
InsertSorted_BeforeEquals(sorted, x) ==
    IF sorted = <<>> THEN <<x>>
    ELSE IF SortCompare(sorted[Len(sorted)], x) >= 0
         THEN Append(InsertSorted_BeforeEquals(SubSeq(sorted, 1, Len(sorted) - 1), x),
                     sorted[Len(sorted)])
         ELSE Append(sorted, x)

(* Array.prototype.sort is stable (ECMAScript 2019): each element goes     *)
(* behind every earlier element that does not compare greater than it.     *)
RECURSIVE InsertSorted(_, _)
InsertSorted(sorted, x) ==
    IF sorted = <<>> THEN <<x>>
    ELSE IF SortCompare(sorted[Len(sorted)], x) > 0
         THEN Append(InsertSorted(SubSeq(sorted, 1, Len(sorted) - 1), x),
                     sorted[Len(sorted)])
         ELSE Append(sorted, x)

RECURSIVE StableSort(_)
StableSort(arr) ==
    IF arr = <<>> THEN <<>>
    ELSE InsertSorted(StableSort(SubSeq(arr, 1, Len(arr) - 1)), arr[Len(arr)])

Reorderings(arr) ==
    {[i \in 1..Len(arr) |-> arr[p[i]]] : p \in Permutations(1..Len(arr))}

(* The comparator is consistent unless it returns NaN for a pair, which it *)
(* does when a[sortField] of some element is no number: then the order of  *)
(* the result is implementation-defined.                                   *)
ConsistentComparator(arr) ==
    \/ sortField = "potentialScore"
    \/ \A i \in 1..Len(arr) : ToNumber(arr[i][sortField]).k # "nan"

(* sortData, App.js:109-120: the results [...data].sort(...) can have.     *)
sortData(data) ==
    IF ConsistentComparator(data) THEN {StableSort(data)} ELSE Reorderings(data)

(* slice(1, end + 1) in place of slice(0, end).                            *)
Slice_OffByOne(arr, end) ==
    SubSeq(arr, 2, IF Len(arr) < end + 1 THEN Len(arr) ELSE end + 1)

(* Array.prototype.slice(0, end) *)
Slice(arr, end) == SubSeq(arr, 1, IF Len(arr) < end THEN Len(arr) ELSE end)

(* String.prototype.toUpperCase on the symbols of the model.               *)
toUpperCase(str) ==
    CASE str = "gem" -> "GEM"
      [] str = "Moon" -> "MOON"
      [] OTHER -> str

(* App.js:136-140 *)
ChartData(top10Tokens) ==
    [i \in 1..Len(top10Tokens) |->
        [name |-> toUpperCase(top10Tokens[i].symbol),
         score |-> analyzePotential(top10Tokens[i]).value,
         marketCap |-> top10Tokens[i].market_cap]]

(* The cards of "Detailed Gem Analysis", App.js:205-225.                   *)
Cards(top10Tokens) ==
    [i \in 1..Len(top10Tokens) |->
        [key |-> top10Tokens[i].id,
         potential |-> analyzePotential(top10Tokens[i]),
         analysis |-> generateAnalysis(top10Tokens[i])]]

-----------------------------------------------------------------------------
(* The inputs: what the market-data endpoint can answer.                   *)

MaxLen == 2       \* longest response drawn from the malformed-value kinds
MaxLong == 11     \* longest response drawn from the well-formed kinds
Period == 3       \* the long responses repeat a pattern of this many kinds
MaxSortLen == 3   \* longest input of a direct sortData call

Kind(mc, tv, pch, ts, cs) ==
    [market_cap |-> mc, total_volume |-> tv, price_change_percentage_24h |-> pch,
     total_supply |-> ts, circulating_supply |-> cs]

(* One element of the decoded array: the provider's ids are unique, the    *)
(* element at position i gets id i.                                        *)
Record(i, kind) ==
    [id |-> i,
     name |-> IF i % 2 = 1 THEN "Gem Token" ELSE "Moon Coin",
     symbol |-> IF i % 2 = 1 THEN "gem" ELSE "Moon",
     market_cap |-> kind.market_cap,
     total_volume |-> kind.total_volume,
     price_change_percentage_24h |-> kind.price_change_percentage_24h,
     total_supply |-> kind.total_supply,
     circulating_supply |-> kind.circulating_supply]

MarketCapValues ==
    {JSUndefined, JSNull, JSStr(<<"5", "0">>), JSStr(<<"a">>), JSStr(<<>>),
     JSNum(0), JSNum(0 - 5000000), JSNum(5000000), JSNum(80000000), JSNum(100000000)}

TotalVolumeValues ==
    {JSUndefined, JSNull, JSBool(TRUE), JSStr(<<"3", "0">>), JSStr(<<"a">>),
     JSNum(0), JSNum(0 - 3000000), JSNum(500000), JSNum(2000000), JSNum(3000000),
     JSNum(90000000)}

(* Records whose market_cap or total_volume may be malformed.              *)
RichKinds ==
    {Kind(mc, JSNum(3000000), JSNum(20), JSNum(100), JSNum(20)) : mc \in MarketCapValues}
    \cup {Kind(JSNum(5000000), tv, JSNum(5), JSNull, JSNull) : tv \in TotalVolumeValues}
    \cup {Kind(JSNum(80000000), JSNum(2000000), JSNum(5), JSUndefined, JSUndefined),
          Kind(JSNum(80000000), JSNum(90000000), JSNum(10), JSNum(100), JSNum(0)),
          Kind(JSNum(0), JSNum(0), JSNull, JSNull, JSNull),
          Kind(JSBool(TRUE), JSNum(3), JSNum(20), JSNum(100), JSNum(20)),
          Kind(JSBool(FALSE), JSNum(3), JSNum(20), JSNum(100), JSNum(20)),
          Kind(JSNum(0 - 5000000), JSNum(0 - 3000000), JSNum(20), JSNum(100), JSNum(40)),
          Kind(JSStr(<<"5", "0">>), JSStr(<<"9">>), JSNum(20), JSNum(100), JSNum(20)),
          Kind(JSNull, JSNum(0 - 3000000), JSNum(20), JSNum(100), JSNum(20))}

(* Well-formed gems, of score 15, 3 and 3.                                 *)
PlainKinds ==
    {Kind(JSNum(5000000), JSNum(3000000), JSNum(20), JSNum(100), JSNum(20)),
     Kind(JSNum(30000000), JSNum(4000000), JSNum(5), JSNull, JSNull),
     Kind(JSNum(80000000), JSNum(30000000), JSNum(0 - 5), JSNum(100), JSNum(80))}

(* The arrays of exactly n records of the kinds, and of up to maxLen.       *)
RECURSIVE ArraysOfLen(_, _)
ArraysOfLen(kinds, n) ==
    IF n = 0 THEN {<<>>}
    ELSE {Append(a, Record(n, k)) : a \in ArraysOfLen(kinds, n - 1), k \in kinds}

ArraysOf(kinds, maxLen) == UNION {ArraysOfLen(kinds, n) : n \in 0..maxLen}

(* The values response.json() can resolve to: an array of records, or a    *)
(* JSON value that is no array (the provider's error object).              *)
Body(isArray, data) == [isArray |-> isArray, data |-> data]

NotAnArray == Body(FALSE, <<>>)

(* err.message of the errors fetch and response.json() reject with: the    *)
(* TypeError and SyntaxError of the platform, whose messages are not empty.*)
NetworkErrors == {"Failed to fetch", "NetworkError when attempting to fetch resource."}
DecodeErrors == {"Unexpected token < in JSON at position 0"}

NoError == [isNull |-> TRUE, message |-> ""]
ErrorMessage(msg) == [isNull |-> FALSE, message |-> msg]
ErrorTruthy(e) == ~e.isNull /\ e.message # ""

(* The answer to the fetch: how far it got, response.ok, the decoded body. *)
Response(stage, ok, body) == [stage |-> stage, ok |-> ok, body |-> body]
NoBody == Body(FALSE, <<>>)

-----------------------------------------------------------------------------
(* The component.                                                          *)

LoadingScreen ==
    [screen |-> "loading", message |-> "", top10Tokens |-> <<>>, chartData |-> <<>>,
     cards |-> <<>>]

ErrorScreen(msg) ==
    [screen |-> "error", message |-> msg, top10Tokens |-> <<>>, chartData |-> <<>>,
     cards |-> <<>>]

Dashboard(sorted) ==
    LET top10Tokens == Slice(sorted, TopN)
    IN  [screen |-> "dashboard", message |-> "", top10Tokens |-> top10Tokens,
         chartData |-> ChartData(top10Tokens), cards |-> Cards(top10Tokens)]

(* What App returns for the current state, App.js:122-231.                 *)
RenderResults ==
    IF loading THEN {LoadingScreen}
    ELSE IF ErrorTruthy(error) THEN {ErrorScreen(error.message)}
    ELSE {Dashboard(sorted) : sorted \in sortData(cryptoData)}

Idle ==
    /\ crypto = Record(1, Kind(JSNull, JSNull, JSNull, JSNull, JSNull))
    /\ score = NewScore
    /\ scPc = "idle"
    /\ text = <<>>
    /\ sortedData = <<>>

Init ==
    /\ loading = TRUE
    /\ error = NoError
    /\ cryptoData = <<>>
    /\ sortField = "potentialScore"
    /\ sortDirection = "desc"
    /\ pc = "effect"
    /\ response = Response("none", FALSE, NoBody)
    /\ view = LoadingScreen
    /\ Idle

Harness == <<crypto, score, scPc, text, sortedData>>

(* useEffect(() => fetchCryptoData(), []), App.js:18-26 *)
Mount ==
    /\ pc = "effect"
    /\ pc' = "awaitFetch"
    /\ response' = Response("pending", FALSE, NoBody)
    /\ UNCHANGED <<loading, error, cryptoData, sortField, sortDirection, view, Harness>>

(* throw ...; catch (err) { setError(err.message); App.js:41-42 *)
Catch(msg) ==
    /\ error' = ErrorMessage(msg)
    /\ pc' = "catchSetLoading"
    /\ UNCHANGED <<loading, cryptoData, sortField, sortDirection, view, Harness>>

(* await fetch(...) rejects, App.js:24 *)
FetchRejected ==
    /\ pc = "awaitFetch"
    /\ \E msg \in NetworkErrors :
        /\ response' = Response("rejected", FALSE, NoBody)
        /\ Catch(msg)

(* fetch resolving without the response.ok check.                          *)
FetchResolved_StatusIgnored ==
    /\ pc = "awaitFetch"
    /\ \E ok \in BOOLEAN :
        /\ response' = Response("resolved", ok, NoBody)
        /\ pc' = "awaitJson"
        /\ UNCHANGED <<loading, error, cryptoData, sortField, sortDirection, view,
                       Harness>>

(* await fetch(...) resolves; if (!response.ok) throw, App.js:24-27 *)
FetchResolved ==
    /\ pc = "awaitFetch"
    /\ \E ok \in BOOLEAN :
        IF ok
        THEN /\ response' = Response("resolved", TRUE, NoBody)
             /\ pc' = "awaitJson"
             /\ UNCHANGED <<loading, error, cryptoData, sortField, sortDirection, view,
                            Harness>>
        ELSE /\ response' = Response("resolved", FALSE, NoBody)
             /\ Catch("Failed to fetch data")

(* await response.json() rejects, App.js:28 *)
JsonRejected ==
    /\ pc = "awaitJson"
    /\ \E msg \in DecodeErrors :
        /\ response' = Response("undecodable", response.ok, NoBody)
        /\ Catch(msg)

(* const data = ...; data.filter(...); setCryptoData, App.js:28-39 *)
Decode(body) ==
    /\ response' = Response("decoded", response.ok, body)
    /\ IF body.isArray
       THEN /\ cryptoData' = potentialGems(body.data)
            /\ pc' = "setLoading"
            /\ UNCHANGED <<loading, error, sortField, sortDirection, view, Harness>>
       ELSE Catch("data.filter is not a function")

(* await response.json() resolves, App.js:28-39 *)
JsonResolved ==
    /\ pc = "awaitJson"
    /\ \/ Decode(NotAnArray)
       \/ \E n \in 0..MaxLen : \E f \in [1..n -> RichKinds] :
            Decode(Body(TRUE, [i \in 1..n |-> Record(i, f[i])]))
       \/ \E n \in 0..MaxLong : \E f \in [0..(Period - 1) -> PlainKinds] :
            Decode(Body(TRUE, [i \in 1..n |-> Record(i, f[i % Period])]))

(* setLoading(false) of the try block, App.js:40 *)
SetLoadingLoaded ==
    /\ pc = "setLoading"
    /\ loading' = FALSE
    /\ pc' = "done"
    /\ UNCHANGED <<error, cryptoData, sortField, sortDirection, response, view, Harness>>

(* setLoading(false) of the catch block, App.js:43 *)
SetLoadingFailed ==
    /\ pc = "catchSetLoading"
    /\ loading' = FALSE
    /\ pc' = "done"
    /\ UNCHANGED <<error, cryptoData, sortField, sortDirection, response, view, Harness>>

(* A render of App after a state change, App.js:122-231 *)
Render ==
    /\ view \notin RenderResults
    /\ view' \in RenderResults
    /\ UNCHANGED <<loading, error, cryptoData, sortField, sortDirection, pc, response,
                   Harness>>

Next ==
    \/ Mount
    \/ FetchRejected
    \/ FetchResolved
    \/ JsonRejected
    \/ JsonResolved
    \/ SetLoadingLoaded
    \/ SetLoadingFailed
    \/ Render

Spec == Init /\ [][Next]_vars

-----------------------------------------------------------------------------
(* analyzePotential and generateAnalysis on one record, as the card of     *)
(* App.js:205-225 calls them, statement by statement.                      *)

ScoreKinds ==
    {Kind(mc, tv, pch, ts, cs) :
        mc \in {JSNum(0), JSNum(5000000), JSNum(10000000), JSNum(30000000),
                JSNum(50000000), JSNum(80000000)},
        tv \in {JSNum(0), JSNum(3000000), JSNum(4000000), JSNum(5000000),
                JSNum(90000000)},
        pch \in {JSNull, JSNum(0 - 5), JSNum(8), JSNum(9), JSNum(15), JSNum(20)},
        ts \in {JSUndefined, JSNull, JSNum(0), JSNum(100)},
        cs \in {JSUndefined, JSNull, JSNum(0), JSNum(20), JSNum(30), JSNum(40),
                JSNum(50), JSNum(80)}}

ComponentAtRest ==
    /\ loading = FALSE
    /\ error = NoError
    /\ sortField = "potentialScore"
    /\ sortDirection = "desc"
    /\ pc = "done"
    /\ response = Response("none", FALSE, NoBody)
    /\ view = LoadingScreen

Component == <<loading, error, cryptoData, sortField, sortDirection, pc, response, view>>

InitScore ==
    /\ ComponentAtRest
    /\ cryptoData = <<>>
    /\ crypto \in {Record(1, k) : k \in ScoreKinds}
    /\ score = NewScore
    /\ scPc = "marketCap"
    /\ text = <<>>
    /\ sortedData = <<>>

ScoreStep(from, to, next) ==
    /\ scPc = from
    /\ score' = next
    /\ scPc' = to
    /\ UNCHANGED <<Component, crypto, text, sortedData>>

StepMarketCap == ScoreStep("marketCap", "volume", ScoreMarketCap(score, crypto))
StepVolume == ScoreStep("volume", "momentum", ScoreVolume(score, crypto))
StepMomentum == ScoreStep("momentum", "supply", ScoreMomentum(score, crypto))
StepSupply == ScoreStep("supply", "bonus", ScoreSupply(score, crypto))
StepBonus == ScoreStep("bonus", "return", ScoreBonus(score, crypto))

(* generateAnalysis(crypto), App.js:219 *)
Narrate ==
    /\ scPc = "return"
    /\ text' = generateAnalysis(crypto)
    /\ scPc' = "done"
    /\ UNCHANGED <<Component, crypto, score, sortedData>>

NextScore ==
    \/ StepMarketCap
    \/ StepVolume
    \/ StepMomentum
    \/ StepSupply
    \/ StepBonus
    \/ Narrate

SpecScore == InitScore /\ [][NextScore]_vars

-----------------------------------------------------------------------------
(* sortData on its own, for every sort field and direction.                *)

SortKinds ==
    {Kind(JSNum(5000000), JSNum(3000000), JSNum(20), JSNum(100), JSNum(20)),
     Kind(JSNum(30000000), JSNum(4000000), JSNum(5), JSNull, JSNull),
     Kind(JSNum(80000000), JSNum(30000000), JSNum(0 - 5), JSNum(100), JSNum(80)),
     Kind(JSNum(5000000), JSNum(4000000), JSNull, JSUndefined, JSUndefined)}

SortFields ==
    {"potentialScore", "market_cap", "total_volume", "price_change_percentage_24h",
     "total_supply"}

InitSort ==
    /\ loading = FALSE
    /\ error = NoError
    /\ pc = "done"
    /\ response = Response("none", FALSE, NoBody)
    /\ view = LoadingScreen
    /\ cryptoData \in ArraysOf(SortKinds, MaxSortLen)
    /\ sortField \in SortFields
    /\ sortDirection \in {"asc", "desc"}
    /\ crypto = Record(1, Kind(JSNull, JSNull, JSNull, JSNull, JSNull))
    /\ score = NewScore
    /\ scPc = "sort"
    /\ text = <<>>
    /\ sortedData = <<>>

(* const sortedData = sortData(cryptoData), App.js:134 *)
SortCall ==
    /\ scPc = "sort"
    /\ sortedData' \in sortData(cryptoData)
    /\ scPc' = "sorted"
    /\ UNCHANGED <<Component, crypto, score, text>>

NextSort == SortCall

SpecSort == InitSort /\ [][NextSort]_vars

-----------------------------------------------------------------------------
(* Properties of the candidate filter.                                     *)

Range(seq) == {seq[i] : i \in 1..Len(seq)}

Decoded == response.stage = "decoded" /\ response.body.isArray

(* The three inclusion conditions, on the numeric values of the fields:    *)
(* marketCap > 0, marketCap / 1,000,000 < 100, totalVolume / marketCap >   *)
(* 0.1, the last two cleared of their divisions.                           *)
MeetsConditions(c) ==
    LET m == ToNumber(c.market_cap)
        v == ToNumber(c.total_volume)
    IN  /\ m.k = "fin" /\ v.k = "fin"
        /\ m.p > 0
        /\ m.p < 100 * Million
        /\ 10 * v.p > m.p

(* C1: the filter returns exactly the subsequence of the response's        *)
(* records that meet all three conditions: every kept record is a record   *)
(* of the response that meets them, the kept records are in the order of   *)
(* the response without repetition, and every record of the response that  *)
(* meets them is kept (so every record left out violates one).             *)
C1_FilterIsExactSubsequence ==
    Decoded =>
        LET data == response.body.data
        IN  /\ \A i \in 1..Len(cryptoData) :
                /\ cryptoData[i].id \in 1..Len(data)
                /\ cryptoData[i] = data[cryptoData[i].id]
                /\ MeetsConditions(cryptoData[i])
            /\ \A i, j \in 1..Len(cryptoData) :
                i < j => cryptoData[i].id < cryptoData[j].id
            /\ \A k \in 1..Len(data) :
                MeetsConditions(data[k]) => data[k] \in Range(cryptoData)

(* A response whose first record is left out and whose second is kept.     *)
C1_Witness ==
    /\ Decoded
    /\ Len(response.body.data) = 2
    /\ Len(cryptoData) = 1
    /\ cryptoData[1] = response.body.data[2]

Missing(v) == v.t \in {"undefined", "null"}
NonNumeric(v) == v.t \in {"string", "boolean"}
ZeroOrNegative(v) == v.t = "number" /\ v.n <= 0
Malformed(v) == Missing(v) \/ NonNumeric(v) \/ ZeroOrNegative(v)

(* C6: a record whose market_cap or total_volume is missing, non-numeric,  *)
(* zero or negative is never in the filter's output, and the filter raises *)
(* no error on it.                                                         *)
C6_MalformedRecordDropped ==
    Decoded =>
        /\ error = NoError
        /\ \A k \in 1..Len(response.body.data) :
            LET c == response.body.data[k]
            IN  (Malformed(c.market_cap) \/ Malformed(c.total_volume))
                    => c \notin Range(cryptoData)

(* C8: in every state of the component every record of cryptoData, and so  *)
(* every record rendered, has a market cap that is present and > 0 and     *)
(* meets the filter's conditions, and the volume / market cap quotient the *)
(* scorer and the narrator compute for it is a finite number.              *)
C8_OnlyFilteredRecordsHeld ==
    /\ \A i \in 1..Len(cryptoData) :
        LET c == cryptoData[i]
        IN  /\ ~Missing(c.market_cap)
            /\ NumGt(ToNumber(c.market_cap), Fin(0, 1))
            /\ MeetsConditions(c)
            /\ NumDiv(ToNumber(c.total_volume), ToNumber(c.market_cap)).k = "fin"
    /\ Range(view.top10Tokens) \subseteq Range(cryptoData)

(* A dashboard on screen after a response that held a record without a     *)
(* positive market cap.                                                    *)
C8_Witness ==
    /\ Decoded
    /\ view.screen = "dashboard"
    /\ Len(view.top10Tokens) > 0
    /\ \E k \in 1..Len(response.body.data) :
        ~NumGt(ToNumber(response.body.data[k].market_cap), Fin(0, 1))

-----------------------------------------------------------------------------
(* Properties of the component.                                            *)

ScoreOf(c) == analyzePotential(c).value

(* a is ranked before b by potentialScore desc: the higher score first,    *)
(* and of two equal scores the record that came first in the response.     *)
RankedBefore(a, b) ==
    \/ ScoreOf(a) > ScoreOf(b)
    \/ ScoreOf(a) = ScoreOf(b) /\ a.id < b.id

(* C9: after a successful fetch of n filtered records the displayed list   *)
(* is the first min(10, n) records of the ranking by score, descending: it *)
(* has min(10, n) distinct records of cryptoData in ranked order, every    *)
(* record left out is ranked behind every displayed one (none has a        *)
(* strictly greater score), and chartData and the cards have one entry per *)
(* displayed record, in order, with the record's score and market cap.     *)
C9_TopTenOfRanking ==
    view.screen = "dashboard" =>
        LET top == view.top10Tokens
            n == Len(cryptoData)
        IN  /\ Len(top) = (IF n < 10 THEN n ELSE 10)
            /\ Range(top) \subseteq Range(cryptoData)
            /\ \A i, j \in 1..Len(top) : i < j => RankedBefore(top[i], top[j])
            /\ \A c \in Range(cryptoData) \ Range(top) :
                \A d \in Range(top) :
                    /\ RankedBefore(d, c)
                    /\ ~(ScoreOf(c) > ScoreOf(d))
            /\ Len(view.chartData) = Len(top)
            /\ Len(view.cards) = Len(top)
            /\ \A i \in 1..Len(top) :
                /\ view.chartData[i].score = ScoreOf(top[i])
                /\ view.chartData[i].marketCap = top[i].market_cap
                /\ view.chartData[i].name = (IF top[i].id % 2 = 1 THEN "GEM" ELSE "MOON")
                /\ view.cards[i].key = top[i].id
                /\ view.cards[i].potential.value = ScoreOf(top[i])

(* More than ten gems, displayed in another order than they arrived, with  *)
(* displayed records of different scores.                                  *)
C9_Witness ==
    /\ view.screen = "dashboard"
    /\ Len(cryptoData) > 10
    /\ Len(view.top10Tokens) = 10
    /\ view.top10Tokens[1].id > 1
    /\ ScoreOf(view.top10Tokens[1]) > ScoreOf(view.top10Tokens[10])

Loaded ==
    /\ ~loading
    /\ error = NoError
    /\ Decoded
    /\ cryptoData = potentialGems(response.body.data)

Failed ==
    /\ ~loading
    /\ ~error.isNull
    /\ error.message # ""
    /\ cryptoData = <<>>

LoadStateInvariant ==
    /\ pc \in {"effect", "awaitFetch", "awaitJson"} =>
        loading /\ error = NoError /\ cryptoData = <<>>
    /\ pc = "done" => (Loaded \/ Failed) /\ ~(Loaded /\ Failed)
    /\ pc = "done" /\ ~Decoded => Failed
    /\ pc = "done" /\ response.stage \in {"resolved", "undecodable", "decoded"}
            /\ ~response.ok
        => Failed /\ response.stage = "resolved" /\ error.message = "Failed to fetch data"
    /\ pc = "done" /\ response.stage = "rejected" => error.message \in NetworkErrors
    /\ pc = "done" /\ response.stage = "undecodable" => error.message \in DecodeErrors
    /\ view.screen = "dashboard" => pc = "done" /\ Loaded
    /\ view.screen = "error" => Failed /\ view.message = error.message

LoadStateStep ==
    /\ ~loading => ~loading'
    /\ pc = "done" => UNCHANGED <<loading, error, cryptoData, pc, response>>
    /\ response'.stage = "pending" => pc = "effect"
    /\ pc # "effect" => pc' # "effect"

(* C10: the load state is a one-shot machine.  It starts loading, without  *)
(* error and without data; the one fetch started on mount ends either      *)
(* loaded (not loading, no error, cryptoData the filtered response) or     *)
(* failed (not loading, error the failure's message, cryptoData empty),    *)
(* never both; a non-OK response, a rejected fetch and a rejected decode   *)
(* end failed; loading never returns to true and nothing changes after the *)
(* end; the ranked list is rendered only when loaded.                      *)
C10_OneShotLoadState == [](LoadStateInvariant) /\ [][LoadStateStep]_vars

(* The error screen on display after a non-OK response.                    *)
C10_Witness ==
    /\ pc = "done"
    /\ response.stage = "resolved"
    /\ ~response.ok
    /\ view.screen = "error"

-----------------------------------------------------------------------------
(* Properties of the scorer and the narrator, on records of the data model *)
(* with a market cap above zero.                                           *)

Present(v) == v.t = "number"
Scored == scPc \in {"return", "done"}
WellFormed(c) == Present(c.market_cap) /\ Present(c.total_volume) /\ c.market_cap.n > 0

(* Both supply fields are there: numbers, the total not the zero           *)
(* denominator.                                                            *)
SupplyPresent(c) ==
    /\ Present(c.total_supply) /\ c.total_supply.n # 0
    /\ Present(c.circulating_supply) /\ c.circulating_supply.n >= 0

(* The rule table, each comparison cleared of its division.                *)
TableMarketCap(c) ==
    IF c.market_cap.n < 10 * Million THEN 4
    ELSE IF c.market_cap.n < 50 * Million THEN 3 ELSE 0

TableVolume(c) ==
    IF 10 * c.total_volume.n > 5 * c.market_cap.n THEN 4
    ELSE IF 10 * c.total_volume.n > 3 * c.market_cap.n THEN 3 ELSE 0

TableMomentum(c) ==
    LET change == c.price_change_percentage_24h
    IN  IF Present(change) /\ change.n > 15 THEN 4
        ELSE IF Present(change) /\ change.n > 8 THEN 2 ELSE 0

TableSupply(c) ==
    IF ~SupplyPresent(c) THEN 0
    ELSE IF 10 * c.circulating_supply.n < 3 * c.total_supply.n THEN 3
    ELSE IF 10 * c.circulating_supply.n < 5 * c.total_supply.n THEN 2 ELSE 0

TableBonus(c) == IF c.total_volume.n > c.market_cap.n THEN 2 ELSE 0

ScenarioA ==
    Kind(JSNum(5000000), JSNum(3000000), JSNum(20), JSNum(100), JSNum(20))

(* C2: the value analyzePotential returns is the sum of the rule table's   *)
(* points, one tier at most per group, the higher tier first, the bonus    *)
(* apart; the record of Scenario A scores 15.                              *)
C2_ScoreIsRuleTableSum ==
    Scored /\ WellFormed(crypto) =>
        /\ score.value = TableMarketCap(crypto) + TableVolume(crypto)
                            + TableMomentum(crypto) + TableSupply(crypto)
                            + TableBonus(crypto)
        /\ crypto = Record(1, ScenarioA) => score.value = 15

FactorTexts ==
    <<"Micro market cap with massive growth potential",
      "Very low market cap with high growth potential",
      "Exceptional trading volume relative to market cap",
      "Very high trading volume relative to market cap",
      "Strong positive price momentum (>15%)",
      "Good positive price momentum (>8%)",
      "Very large room for supply growth",
      "Significant room for supply growth",
      "Extremely high trading activity">>

FactorIndex(f) == CHOOSE i \in 1..Len(FactorTexts) : FactorTexts[i] = f
FactorGroup(f) == (FactorIndex(f) + 1) \div 2
FactorPoints(f) == <<4, 3, 4, 3, 4, 2, 3, 2, 2>>[FactorIndex(f)]

RECURSIVE SumPoints(_)
SumPoints(factors) ==
    IF factors = <<>> THEN 0
    ELSE FactorPoints(factors[1]) + SumPoints(Tail(factors))

SupplyPoints(sc) ==
    IF "Very large room for supply growth" \in Range(sc.factors) THEN 3
    ELSE IF "Significant room for supply growth" \in Range(sc.factors) THEN 2
    ELSE 0

SupplyInModel(c) ==
    /\ Present(c.total_supply) \/ Missing(c.total_supply)
    /\ Present(c.circulating_supply) \/ Missing(c.circulating_supply)
    /\ Present(c.total_supply) /\ Present(c.circulating_supply)
        => /\ 0 <= c.circulating_supply.n
           /\ c.circulating_supply.n <= c.total_supply.n

(* C7: the supply group contributes (3 points below 0.3, else 2, with its  *)
(* factor) exactly when both supply fields are non-negative numbers, the   *)
(* total is not zero and circulating / total < 0.5; it contributes nothing *)
(* when a field is absent or the total is zero; the other groups           *)
(* contribute what they contribute without it.                             *)
C7_SupplyGroup ==
    Scored /\ WellFormed(crypto) /\ SupplyInModel(crypto) =>
        /\ SupplyPoints(score) = TableSupply(crypto)
        /\ score.value - SupplyPoints(score)
              = TableMarketCap(crypto) + TableVolume(crypto)
                  + TableMomentum(crypto) + TableBonus(crypto)

Clauses(t) == [i \in 1..Len(t) |-> t[i].clause]
HasClause(t, i) == i \in Range(Clauses(t))

(* C5: generateAnalysis always emits clause 1, clause 2 iff totalVolume /  *)
(* marketCap > 0.3, clause 3 iff the 24h price change is > 0, clause 4 iff *)
(* both supply fields are present; the clauses come in the order 1 to 4.   *)
C5_NarrativeClauses ==
    scPc = "done" /\ WellFormed(crypto) /\ SupplyInModel(crypto) =>
        /\ Len(text) >= 1 /\ text[1].clause = 1
        /\ \A i, j \in 1..Len(text) : i < j => text[i].clause < text[j].clause
        /\ HasClause(text, 2) <=> 10 * crypto.total_volume.n > 3 * crypto.market_cap.n
        /\ HasClause(text, 3) <=>
              /\ Present(crypto.price_change_percentage_24h)
              /\ crypto.price_change_percentage_24h.n > 0
        /\ HasClause(text, 4) <=> SupplyPresent(crypto)

-----------------------------------------------------------------------------
(* Properties of sortData.                                                 *)

(* The key sortData compares: the score, or the number in the sort field.  *)
SortKey(c) ==
    IF sortField = "potentialScore" THEN Fin(ScoreOf(c), 1) ELSE ToNumber(c[sortField])

NumericKeys == \A i \in 1..Len(cryptoData) : SortKey(cryptoData[i]).k = "fin"

SortedAsAsked ==
    /\ Len(sortedData) = Len(cryptoData)
    /\ {sortedData[i].id : i \in 1..Len(sortedData)} = 1..Len(cryptoData)
    /\ \A i \in 1..Len(sortedData) : sortedData[i] = cryptoData[sortedData[i].id]
    /\ \A i, j \in 1..Len(sortedData) :
        i < j =>
            /\ sortDirection = "desc" => ~NumLt(SortKey(sortedData[i]), SortKey(sortedData[j]))
            /\ sortDirection = "asc" => ~NumGt(SortKey(sortedData[i]), SortKey(sortedData[j]))
            /\ (~NumLt(SortKey(sortedData[i]), SortKey(sortedData[j]))
                    /\ ~NumGt(SortKey(sortedData[i]), SortKey(sortedData[j])))
                => sortedData[i].id < sortedData[j].id

(* C4: for the score and for every field whose values are numbers,         *)
(* sortData returns a permutation of its input, ordered by the key in the  *)
(* direction asked, records of equal key in their input order; the input   *)
(* is not reordered.                                                       *)
C4_SortIsStablePermutation ==
    /\ [](scPc = "sorted" /\ NumericKeys => SortedAsAsked)
    /\ [][cryptoData' = cryptoData]_vars

(* A sort that moved a record and met a tie.                               *)
C4_Witness ==
    /\ scPc = "sorted"
    /\ NumericKeys
    /\ sortedData # cryptoData
    /\ \E i, j \in 1..Len(cryptoData) :
        i < j /\ SortKey(cryptoData[i]) = SortKey(cryptoData[j])

=============================================================================
